---- MODULE Spec2Model ----
(***************************************************************************)
(* A model of rtt/library.py (RotaTimetable): Role constraint inheritance, *)
(* the Rota roster with its reload -> mutate -> persist wrapper, and the   *)
(* Station asset registries with their pickle file.                        *)
(*                                                                         *)
(* Python objects are records; a Python dict is a TLA+ function over its   *)
(* key set; object identity (which dict a registry attribute points to,    *)
(* which Role a Role inherits) is kept as a reference into a heap.         *)
(***************************************************************************)
EXTENDS Integers, Sequences, FiniteSets, TLC

(***************************************************************************)
(* Bounds of the model.                                                    *)
(***************************************************************************)
MaxRoles == 3

\* The number of Personnel objects a run creates.
MaxPersonnel == 3

\* Vehicle objects usable as constraint keys (compared by identity).
VehicleX == "X"
VehicleY == "Y"
Vehicles == {VehicleX, VehicleY}

\* Names given to the Roles in creation order (the chain of tests/testvalues.py).
RoleNamePool == <<"FF", "SC", "PO", "DRC", "RC", "R6">>

\* A constraint key that is not a Vehicle, and the absent parent (None).
NotAVehicle == "notAVehicle"
NoRole == 0

\* Python values passed as `rule`: the two booleans and a value of another
\* type (values of different Python types are kept apart by their spelling).
PyTrue == "True"
PyFalse == "False"
NotABool == "notABool"
PyBool == {PyTrue, PyFalse}

VARIABLES
    roleObjs,   \* the Role objects created so far, in creation order
    rotaObjs,   \* the Rota object each handle is bound to
    rotaFile,   \* the file the handles share
    rotaRet,    \* the last Rota call: operation, handle, outcome, value
    rotaCall,   \* the add or sub call that has reloaded and not yet run on
    stnSlot,    \* the dict object each registry attribute of the Station names
    stnHeap,    \* the contents of the Station's dict objects
    stnFile,    \* the pickled registries: the same two parts, as dumped
    stnRet,     \* the outcome of the last Station call
    stnRosters, \* the roster in the file of each Rota, by Rota identifier
    stnRoles,   \* the Role objects a Station holds and the ones its file holds
    persObjs,   \* the Personnel objects created so far
    applObjs,   \* the Appliance and the Vehicles made from it
    applHeap,   \* the contents of the crew dicts those objects point to
    applRet     \* the last Appliance call: operation and outcome

roleVars == <<roleObjs>>
rotaVars == <<rotaObjs, rotaFile, rotaRet, rotaCall>>
stnVars == <<stnSlot, stnHeap, stnFile, stnRet, stnRosters, stnRoles>>
persVars == <<persObjs>>
applVars == <<applObjs, applHeap, applRet>>
vars == <<roleVars, rotaVars, stnVars, persVars, applVars>>

(***************************************************************************)
(* Python dict helpers.                                                    *)
(***************************************************************************)
EmptyDict == [k \in {} |-> PyTrue]

\* {**d, **e} and d.update(e): the entries of e win on a key collision.
DictMerge(d, e) ==
    [k \in (DOMAIN d) \cup (DOMAIN e) |-> IF k \in DOMAIN e THEN e[k] ELSE d[k]]

SeqRange(s) == {s[i] : i \in 1..Len(s)}

(***************************************************************************)
(* Role                                                                    *)
(***************************************************************************)

\* A plausible slip of Role.constraints: the inherited constraints override
\* the declared ones.
RECURSIVE constraintsInheritedWin(_, _)
constraintsInheritedWin(objs, r) ==
    IF objs[r]._inheritance # NoRole
    THEN DictMerge(objs[r]._constraints,
                   constraintsInheritedWin(objs, objs[r]._inheritance))
    ELSE objs[r]._constraints

\* Another slip: only what the parent declares itself is inherited, not the
\* parent's effective constraints.
constraintsOneLevel(objs, r) ==
    IF objs[r]._inheritance # NoRole
    THEN DictMerge(objs[objs[r]._inheritance]._constraints, objs[r]._constraints)
    ELSE objs[r]._constraints

\* Role.constraints: {**self._inheritance.constraints, **self._constraints}.
RECURSIVE constraints(_, _)
constraints(objs, r) ==
    IF objs[r]._inheritance # NoRole
    THEN DictMerge(constraints(objs, objs[r]._inheritance), objs[r]._constraints)
    ELSE objs[r]._constraints

\* The arguments accepted as `constraint`: a Vehicle, a list, a dict, or
\* anything else.
VehicleArg(v) == [form |-> "vehicle", v |-> v]
ListArg(s) == [form |-> "list", items |-> s]
DictArg(d) == [form |-> "dict", items |-> d]
OtherArg == [form |-> "other"]
NoneArg == [form |-> "none"]

\* Python truthiness of a `constraint` argument (`if constraint:`).
Truthy(c) ==
    CASE c.form = "none" -> FALSE
      [] c.form = "list" -> Len(c.items) > 0
      [] c.form = "dict" -> DOMAIN c.items # {}
      [] OTHER -> TRUE

\* Role.constraint(constraint, rule) applied to the declared constraints
\* `own`: the outcome and the declared constraints afterwards.
RoleConstraintResult(own, c, rule) ==
    CASE c.form = "dict" ->
            IF \E k \in DOMAIN c.items :
                    k \notin Vehicles \/ c.items[k] \notin PyBool
            THEN [out |-> "TypeError", own |-> own]
            ELSE [out |-> "ok", own |-> DictMerge(own, c.items)]
      [] c.form = "vehicle" ->
            IF rule \notin PyBool
            THEN [out |-> "TypeError", own |-> own]
            ELSE [out |-> "ok", own |-> DictMerge(own, [k \in {c.v} |-> rule])]
      [] c.form = "list" ->
            IF \E i \in 1..Len(c.items) : c.items[i] \notin Vehicles
            THEN [out |-> "TypeError", own |-> own]
            ELSE [out |-> "ok",
                  own |-> DictMerge(own, [k \in SeqRange(c.items) |-> rule])]
      [] OTHER -> [out |-> "TypeError", own |-> own]

\* The rules and constraint arguments the callers pass.
Rules == PyBool

\* Lists: empty, all the Vehicles, and one holding a non-Vehicle (a one-item
\* list acts like the single-Vehicle form).
ListArgs ==
    {ListArg(<<>>), ListArg(<<VehicleX, VehicleY>>),
     ListArg(<<VehicleX, NotAVehicle>>)}

\* Dicts: empty, every total Vehicle -> bool mapping, and two ill-typed ones
\* (the one-key dicts act like the single-Vehicle form).
DictArgs ==
    {DictArg(EmptyDict)} \cup {DictArg(d) : d \in [Vehicles -> PyBool]}
        \cup {DictArg([k \in {NotAVehicle} |-> PyTrue]),
              DictArg([k \in {VehicleX} |-> NotABool])}

\* Arguments that come with a rule, and arguments passed without one
\* (rule keeps its default, False).
RuledArgs == {VehicleArg(v) : v \in Vehicles} \cup ListArgs
UnruledArgs == DictArgs \cup {OtherArg}

RoleIds == 1..Len(roleObjs)

\* Role.__init__(name, constraint, rule, inherit): the outcome and the Role
\* objects afterwards.  A raise leaves no object.
RoleInitResult(objs, name, c, rule, inherit) ==
    LET \* line 61: self.constraint(constraint) -- `rule` is not passed on
        res == IF Truthy(c)
               THEN RoleConstraintResult(EmptyDict, c, PyFalse)
               ELSE [out |-> "ok", own |-> EmptyDict]
    IN  IF rule \notin PyBool THEN [out |-> "TypeError", objs |-> objs]
        ELSE IF res.out # "ok" THEN [out |-> res.out, objs |-> objs]
        ELSE [out |-> "ok",
              objs |-> Append(objs, [role |-> name,
                                     _constraints |-> res.own,
                                     _inheritance |-> inherit])]

RoleInit(c, rule, inherit) ==
    /\ Len(roleObjs) < MaxRoles
    /\ roleObjs' = RoleInitResult(roleObjs, RoleNamePool[Len(roleObjs) + 1],
                                  c, rule, inherit).objs
    /\ UNCHANGED <<rotaVars, stnVars, persVars, applVars>>

\* Role.constraint(constraint, rule) on the Role r.
RoleConstraint(r, c, rule) ==
    LET res == RoleConstraintResult(roleObjs[r]._constraints, c, rule)
    IN  /\ roleObjs' = [roleObjs EXCEPT ![r]._constraints = res.own]
        /\ UNCHANGED <<rotaVars, stnVars, persVars, applVars>>

\* Role.__add__(other): copies the effective constraints of `other` that
\* self does not have yet; a non-boolean value met on the way raises after
\* the earlier keys were copied.
RoleAdd(r, other) ==
    LET oc == constraints(roleObjs, other)
        sc == constraints(roleObjs, r)
        new == (DOMAIN oc) \ (DOMAIN sc)
        good == {k \in new : oc[k] \in PyBool}
    IN  /\ IF good = new
           THEN roleObjs' = [roleObjs EXCEPT ![r]._constraints =
                                DictMerge(@, [k \in new |-> oc[k]])]
           ELSE \E done \in SUBSET good :
                   roleObjs' = [roleObjs EXCEPT ![r]._constraints =
                                   DictMerge(@, [k \in done |-> oc[k]])]
        /\ UNCHANGED <<rotaVars, stnVars, persVars, applVars>>

RoleInitial == roleObjs = <<>>

RoleNext ==
    \/ \E c \in RuledArgs, rule \in Rules, inherit \in RoleIds \cup {NoRole} :
          RoleInit(c, rule, inherit)
    \/ \E c \in UnruledArgs \cup {NoneArg}, inherit \in RoleIds \cup {NoRole} :
          RoleInit(c, PyFalse, inherit)
    \/ \E r \in RoleIds, c \in RuledArgs, rule \in Rules :
          RoleConstraint(r, c, rule)
    \/ \E r \in RoleIds, c \in UnruledArgs : RoleConstraint(r, c, PyFalse)
    \/ \E r \in RoleIds, other \in RoleIds : RoleAdd(r, other)


(***************************************************************************)
(* Personnel and Rota                                                      *)
(***************************************************************************)

\* A Personnel object as a Rota sees it (its name and the name of its Role),
\* and a plain string held where a Personnel is expected.
Personnel(name, role) == [cls |-> "Personnel", name |-> name, role |-> role]
PyStr(str) == [cls |-> "str", name |-> str, role |-> ""]

\* Personnel.id: a slice of the sha1 digest of "{name} @ {role}".  The digest
\* is kept symbolic: two ids are equal exactly when the hashed texts are.
PersonnelId(p) == p.name \o " @ " \o p.role

\* The Personnel the callers pass around.
PersonnelPool ==
    <<Personnel("ann", "FF"), Personnel("bob", "FF"), Personnel("ann", "SC")>>
PersonnelObjs == SeqRange(PersonnelPool)

\* The two Rota objects (possibly of two processes) opened on one file name.
Handles == {1, 2}
RotaIds == {1, 2}

\* The backing file: absent, truncated by an open(..., 'wb') that was never
\* followed by a dump, or holding the pickled {'rota', 'personnel'} mapping.
AbsentFile == [state |-> "absent", rota |-> 0, personnel |-> <<>>]
TruncatedFile == [state |-> "truncated", rota |-> 0, personnel |-> <<>>]
DataFile(rota, personnel) ==
    [state |-> "data", rota |-> rota, personnel |-> personnel]

\* A variable not bound to a Rota yet, and the object built by the first
\* lines of Rota.__init__ (self._personnel = {}).
NoRota == [live |-> FALSE, rota |-> 0, ptype |-> "dict", items |-> <<>>]
NewRota(rota) == [live |-> TRUE, rota |-> rota, ptype |-> "dict", items |-> <<>>]

\* The items met by `for i in self._personnel`, and whether Rota.personnel
\* ({i.id: i for i in self._personnel}) raises AttributeError on one of them
\* (a str has no id; iterating a dict yields its str keys).
PersonnelRaises(obj) ==
    \E i \in 1..Len(obj.items) :
        obj.ptype = "dict" \/ obj.items[i].cls # "Personnel"

\* The dict built by Rota.personnel, as the sequence of its values: a key
\* keeps the position of its first occurrence and the value of its last.
RECURSIVE DictOfItems(_)
DictOfItems(s) ==
    IF s = <<>> THEN <<>>
    ELSE LET init == DictOfItems(SubSeq(s, 1, Len(s) - 1))
             x == s[Len(s)]
         IN  IF \E i \in 1..Len(init) : PersonnelId(init[i]) = PersonnelId(x)
             THEN [i \in 1..Len(init) |->
                     IF PersonnelId(init[i]) = PersonnelId(x) THEN x ELSE init[i]]
             ELSE Append(init, x)

\* list(self.personnel) -- the ids, in order -- and the id set.
IdSeq(items) == [i \in 1..Len(DictOfItems(items)) |-> PersonnelId(DictOfItems(items)[i])]
IdSet(items) == {PersonnelId(items[i]) : i \in 1..Len(items)}

IndexOf(s, x) == CHOOSE i \in 1..Len(s) : s[i] = x
RemoveAt(s, i) == SubSeq(s, 1, i - 1) \o SubSeq(s, i + 1, Len(s))

\* What a call hands back: the outcome ("ok" or the error raised), the
\* returned value, and the Rota objects and the file afterwards.
PyNone == [kind |-> "None", items |-> <<>>]
PyValue(x) == [kind |-> "value", items |-> <<x>>]
PyList(s) == [kind |-> "list", items |-> s]
NoneItem == [cls |-> "NoneType", name |-> "", role |-> ""]
ItemOf(val) == IF val.kind = "value" THEN val.items[1] ELSE NoneItem
Outcome(out, val, objs, file) ==
    [out |-> out, val |-> val, objs |-> objs, file |-> file]

\* Rota._save: open(..., 'wb') truncates or creates the file, then
\* pickle.dump(self(), f) evaluates self.personnel.
RotaSaveResult(objs, file, h) ==
    IF PersonnelRaises(objs[h])
    THEN Outcome("AttributeError", PyNone, objs, TruncatedFile)
    ELSE Outcome("ok", PyNone, objs,
                 DataFile(objs[h].rota, DictOfItems(objs[h].items)))

\* Rota._load: creates the file when it is missing, else replaces self.rota
\* and self._personnel by the unpickled ones.
RotaLoadResult(objs, file, h) ==
    CASE file.state = "absent" -> RotaSaveResult(objs, file, h)
      [] file.state = "truncated" -> Outcome("EOFError", PyNone, objs, file)
      [] OTHER ->
            Outcome("ok", PyNone,
                    [objs EXCEPT ![h].rota = file.rota, ![h].ptype = "list",
                                 ![h].items = file.personnel],
                    file)

\* The arguments of add and sub.
PersonnelArg(p) == [form |-> "Personnel", p |-> p, h |-> 0, items |-> <<>>]
RotaArg(o) == [form |-> "Rota", p |-> PyStr(""), h |-> o, items |-> <<>>]
ItemsArg(s) == [form |-> "list", p |-> PyStr(""), h |-> 0, items |-> s]
IntArg == [form |-> "int", p |-> PyStr(""), h |-> 0, items |-> <<>>]

\* The body of Rota.__add__ for a Rota or a Personnel.
RotaAddBody(objs, file, h, arg) ==
    CASE arg.form = "Rota" ->
            \* {**self._personnel, **other._personnel}: a list is no mapping
            IF objs[h].ptype = "dict" /\ objs[arg.h].ptype = "dict"
            THEN Outcome("ok", PyList(objs[arg.h].items),
                         [objs EXCEPT ![h].items =
                             DictOfItems(objs[h].items \o objs[arg.h].items)],
                         file)
            ELSE Outcome("TypeError", PyNone, objs, file)
      [] arg.form = "Personnel" ->
            IF PersonnelRaises(objs[h])
            THEN Outcome("AttributeError", PyNone, objs, file)
            ELSE IF PersonnelId(arg.p) \in IdSet(objs[h].items)
            THEN Outcome("ok", PyNone, objs, file)
            ELSE IF objs[h].ptype = "list"
            \* self._personnel.update(...): a list has no update
            THEN Outcome("AttributeError", PyNone, objs, file)
            ELSE Outcome("ok", PyValue(arg.p),
                         [objs EXCEPT ![h].items =
                             Append(@, PyStr(PersonnelId(arg.p)))],
                         file)
      [] OTHER -> Outcome("TypeError", PyNone, objs, file)

\* safeLoad around __add__: self._load(); function(...); self._save(), and
\* the value of function(...) is dropped.
RotaAddCall(objs, file, h, arg) ==
    LET l == RotaLoadResult(objs, file, h)
        b == RotaAddBody(l.objs, l.file, h, arg)
    IN  IF l.out # "ok" THEN l
        ELSE IF b.out # "ok" THEN b
        ELSE RotaSaveResult(b.objs, b.file, h)

\* Rota.add on a list: [self.add(i) for i in other], stopping at the first
\* item that raises.
RECURSIVE RotaAddEach(_, _, _, _)
RotaAddEach(objs, file, h, items) ==
    IF items = <<>> THEN Outcome("ok", PyList(<<>>), objs, file)
    ELSE LET r == RotaAddCall(objs, file, h, PersonnelArg(items[1]))
         IN  IF r.out # "ok" THEN r
             ELSE LET t == RotaAddEach(r.objs, r.file, h, Tail(items))
                  IN  IF t.out # "ok" THEN t
                      ELSE Outcome("ok", PyList(<<ItemOf(r.val)>> \o t.val.items),
                                   t.objs, t.file)

\* Rota.add(other).
RotaAddResult(objs, file, h, arg) ==
    CASE arg.form \in {"Personnel", "Rota"} -> RotaAddCall(objs, file, h, arg)
      [] arg.form = "list" -> RotaAddEach(objs, file, h, arg.items)
      [] OTHER -> Outcome("TypeError", PyNone, objs, file)

\* The body of Rota.__sub__ for a Rota or a Personnel.
RotaSubBody(objs, file, h, arg) ==
    CASE arg.form = "Rota" ->
            \* list(set(self.personnel) - set(other.personnel)): the ids, no
            \* longer the Personnel (kept here in roster order; nothing reads
            \* the order of this list)
            IF PersonnelRaises(objs[h]) \/ PersonnelRaises(objs[arg.h])
            THEN Outcome("AttributeError", PyNone, objs, file)
            ELSE LET mine == IdSeq(objs[h].items)
                     theirs == IdSet(objs[arg.h].items)
                     Kept(id) == id \notin theirs
                     left == SelectSeq(mine, Kept)
                 IN  Outcome("ok", PyList([i \in 1..Len(IdSeq(objs[arg.h].items))
                                            |-> PyStr(IdSeq(objs[arg.h].items)[i])]),
                             [objs EXCEPT ![h].ptype = "list",
                                          ![h].items =
                                              [i \in 1..Len(left) |-> PyStr(left[i])]],
                             file)
      [] arg.form = "Personnel" ->
            IF PersonnelRaises(objs[h])
            THEN Outcome("AttributeError", PyNone, objs, file)
            ELSE IF PersonnelId(arg.p) \notin IdSet(objs[h].items)
            THEN Outcome("ok", PyNone, objs, file)
            ELSE IF objs[h].ptype = "list"
            \* self._personnel.pop(list(self.personnel).index(other.id))
            THEN Outcome("ok", PyValue(PyStr(PersonnelId(arg.p))),
                         [objs EXCEPT ![h].items =
                             RemoveAt(@, IndexOf(IdSeq(@), PersonnelId(arg.p)))],
                         file)
            ELSE Outcome("KeyError", PyNone, objs, file)
      [] OTHER -> Outcome("TypeError", PyNone, objs, file)

\* A plausible slip of safeLoad: the function runs on the Rota as it is in
\* memory, without the reload.
RotaSubCallNoReload(objs, file, h, arg) ==
    LET b == RotaSubBody(objs, file, h, arg)
    IN  IF b.out # "ok" THEN b
        ELSE RotaSaveResult(b.objs, b.file, h)

\* safeLoad around __sub__ for a Rota or a Personnel.
RotaSubCall(objs, file, h, arg) ==
    LET l == RotaLoadResult(objs, file, h)
        b == RotaSubBody(l.objs, l.file, h, arg)
    IN  IF l.out # "ok" THEN l
        ELSE IF b.out # "ok" THEN b
        ELSE RotaSaveResult(b.objs, b.file, h)

\* The loop of __sub__ over a list: rem(self - i) runs self - i, then calls
\* the list `rem`, which raises the TypeError the loop catches; any other
\* error of self - i leaves the loop.
RECURSIVE RotaSubEach(_, _, _, _)
RotaSubEach(objs, file, h, items) ==
    IF items = <<>> THEN Outcome("ok", PyList(<<>>), objs, file)
    ELSE LET r == RotaSubCall(objs, file, h, PersonnelArg(items[1]))
         IN  IF r.out \notin {"ok", "TypeError"} THEN r
             ELSE RotaSubEach(r.objs, r.file, h, Tail(items))

\* Rota.sub(other), that is self - other under safeLoad; after a loop over
\* a non-empty list ', '.join(err) raises TypeError on the collected types.
RotaSubResult(objs, file, h, arg) ==
    IF arg.form # "list" THEN RotaSubCall(objs, file, h, arg)
    ELSE LET l == RotaLoadResult(objs, file, h)
             e == RotaSubEach(l.objs, l.file, h, arg.items)
         IN  IF l.out # "ok" THEN l
             ELSE IF e.out # "ok" THEN e
             ELSE IF arg.items # <<>>
             THEN Outcome("TypeError", PyNone, e.objs, e.file)
             ELSE RotaSaveResult(e.objs, e.file, h)

\* Rota.__init__(rota, fileName): a raise in _load leaves the variable bound
\* to what it was.
RotaInitResult(objs, file, h, rota) ==
    LET fresh == [objs EXCEPT ![h] = NewRota(rota)]
        l == RotaLoadResult(fresh, file, h)
    IN  IF l.out = "ok" THEN l ELSE Outcome(l.out, PyNone, objs, l.file)

\* Rota(rota, fileName) as the caller writes it: with neither an identifier
\* nor a file name the constructor calls sys.exit(...), which raises
\* SystemExit before anything is read or written (the `raise NameError`
\* below it is then never reached).
NoId == 0
NoName == "None"
SharedName == "shared"
RotaCallResult(objs, file, h, rota, fileName) ==
    IF rota = NoId /\ fileName = NoName
    THEN Outcome("SystemExit", PyNone, objs, file)
    ELSE RotaInitResult(objs, file, h, rota)

\* The constructor calls made: an identifier together with the shared file
\* name, or neither of them.
RotaCalls == {<<rota, SharedName>> : rota \in RotaIds} \cup {<<NoId, NoName>>}

Ret(op, h, r) == [op |-> op, h |-> h, out |-> r.out, val |-> r.val]

\* The rosters a file written earlier may hold: _save writes the values of
\* the personnel dict, so no id occurs twice.
MaxRoster == 2
Rosters ==
    {s \in UNION {[1..n -> PersonnelObjs] : n \in 0..MaxRoster} :
        \A i, j \in 1..Len(s) : i # j => PersonnelId(s[i]) # PersonnelId(s[j])}

AddArgs ==
    {PersonnelArg(p) : p \in PersonnelObjs} \cup {RotaArg(o) : o \in Handles}
        \cup {ItemsArg(<<>>), ItemsArg(<<PersonnelPool[1], PersonnelPool[2]>>), IntArg}

SubArgs == AddArgs

\* safeLoad taken in its two halves, with the calls of the other process
\* free to run in between: no call in progress, and what the second half
\* does -- function(self, ...) on the Rota as reloaded by the first half,
\* then self._save().
NoCall == [h |-> 0, op |-> "none", arg |-> IntArg]

\* A plausible slip: the second half reads the file again before it runs.
RotaFinishReloading(objs, file, h, op, arg) ==
    IF op = "add" THEN RotaAddCall(objs, file, h, arg)
    ELSE RotaSubCall(objs, file, h, arg)

RotaFinishResult(objs, file, h, op, arg) ==
    LET b == IF op = "add" THEN RotaAddBody(objs, file, h, arg)
             ELSE RotaSubBody(objs, file, h, arg)
    IN  IF b.out # "ok" THEN b
        ELSE RotaSaveResult(b.objs, b.file, h)

\* A whole call of the process of handle h, which is not in the middle of
\* another one.
Apply(op, h, r) ==
    /\ rotaCall.h # h
    /\ rotaObjs' = r.objs
    /\ rotaFile' = r.file
    /\ rotaRet' = Ret(op, h, r)
    /\ rotaCall' = rotaCall
    /\ UNCHANGED <<roleVars, stnVars, persVars, applVars>>

RotaInit(h, rota, fileName) ==
    /\ <<rota, fileName>> \in RotaCalls
    /\ Apply("init", h, RotaCallResult(rotaObjs, rotaFile, h, rota, fileName))

RotaAdd(h, arg) ==
    /\ rotaObjs[h].live
    /\ arg.form = "Rota" => rotaObjs[arg.h].live
    /\ Apply("add", h, RotaAddResult(rotaObjs, rotaFile, h, arg))

RotaSub(h, arg) ==
    /\ rotaObjs[h].live
    /\ arg.form = "Rota" => rotaObjs[arg.h].live
    /\ Apply("sub", h, RotaSubResult(rotaObjs, rotaFile, h, arg))

RotaSave(h) ==
    /\ rotaObjs[h].live
    /\ Apply("save", h, RotaSaveResult(rotaObjs, rotaFile, h))

RotaLoad(h) ==
    /\ rotaObjs[h].live
    /\ Apply("load", h, RotaLoadResult(rotaObjs, rotaFile, h))

\* The first half of add(p) or sub(p) for a Personnel p: self._load().  The
\* model follows one call at a time through its two halves.
RotaEnter(h, op, arg) ==
    /\ rotaCall = NoCall
    /\ rotaObjs[h].live
    /\ arg.form = "Personnel"
    /\ LET l == RotaLoadResult(rotaObjs, rotaFile, h)
       IN  /\ rotaObjs' = l.objs
           /\ rotaFile' = l.file
           /\ rotaRet' = Ret("enter", h, l)
           /\ rotaCall' = IF l.out = "ok" THEN [h |-> h, op |-> op, arg |-> arg]
                          ELSE NoCall
    /\ UNCHANGED <<roleVars, stnVars, persVars, applVars>>

\* The second half of that call.
RotaLeave ==
    /\ rotaCall # NoCall
    /\ LET r == RotaFinishResult(rotaObjs, rotaFile, rotaCall.h, rotaCall.op,
                                 rotaCall.arg)
       IN  /\ rotaObjs' = r.objs
           /\ rotaFile' = r.file
           /\ rotaRet' = Ret(rotaCall.op, rotaCall.h, r)
           /\ rotaCall' = NoCall
    /\ UNCHANGED <<roleVars, stnVars, persVars, applVars>>

RotaInitial ==
    /\ rotaCall = NoCall
    /\ rotaObjs = [h \in Handles |-> NoRota]
    /\ rotaFile \in {AbsentFile} \cup {DataFile(1, s) : s \in Rosters}
    /\ rotaRet = [op |-> "none", h |-> 0, out |-> "ok", val |-> PyNone]

RotaNext ==
    \/ \E h \in Handles, call \in RotaCalls : RotaInit(h, call[1], call[2])
    \/ \E h \in Handles, arg \in AddArgs : RotaAdd(h, arg)
    \/ \E h \in Handles, arg \in SubArgs : RotaSub(h, arg)
    \/ \E h \in Handles : RotaSave(h)
    \/ \E h \in Handles : RotaLoad(h)
    \/ \E h \in Handles, op \in {"add", "sub"}, p \in PersonnelObjs :
          RotaEnter(h, op, PersonnelArg(p))
    \/ RotaLeave

(***************************************************************************)
(* Personnel objects and their names                                       *)
(***************************************************************************)

\* The names given to Personnel and the names of the Roles they are created
\* from: any text is a name.
PersonnelNames == {"a", "b", "a @ b"}
PersonnelRoles == {"c", "b @ c"}

PersonnelIds == 1..Len(persObjs)

\* The Role objects the Personnel are created from, by name, with the
\* effective constraints each of them has: "c" forbids the Vehicle X.
HeldConstraints(role) ==
    IF role = "c" THEN [k \in {VehicleX} |-> PyFalse] ELSE EmptyDict

\* Personnel.__init__(name, role): self._name = name and, through
\* Role.__init__(role.role, inherit=role), self.role = role.role, an empty
\* self._constraints and the Role as self._inheritance.
PersonnelObject(name, role) ==
    [cls |-> "Personnel", name |-> name, role |-> role, _constraints |-> EmptyDict]

\* Role.constraints read on a Personnel: the constraints of the held Role
\* with the Personnel's own on top.
PersonnelConstraints(p) == DictMerge(HeldConstraints(p.role), p._constraints)

PersonnelInit(name, role) ==
    /\ Len(persObjs) < MaxPersonnel
    /\ persObjs' = Append(persObjs, PersonnelObject(name, role))
    /\ UNCHANGED <<roleVars, rotaVars, stnVars, applVars>>

\* Rota.addRole(person, constraint, rule) on the own constraints of the
\* Personnel: person.constraint(constraint, rule) when the Personnel is
\* found in the Rota, a printed message and no change when it is not.
AddRoleResult(own, found, c, rule) ==
    IF found THEN RoleConstraintResult(own, c, rule)
    ELSE [out |-> "ok", own |-> own]

\* The addRole calls: a Vehicle with a rule, a Vehicle and a list with the
\* rule left out (its default is None, no boolean), and a mapping.
AddRoleCalls ==
    {<<VehicleArg(VehicleX), PyTrue>>, <<VehicleArg(VehicleX), NotABool>>,
     <<ListArg(<<VehicleX>>), NotABool>>,
     <<DictArg([k \in {VehicleX} |-> PyFalse]), NotABool>>}

RotaAddRole(i, found, c, rule) ==
    /\ i \in PersonnelIds
    /\ persObjs' = [persObjs EXCEPT ![i]._constraints =
                       AddRoleResult(@, found, c, rule).own]
    /\ UNCHANGED <<roleVars, rotaVars, stnVars, applVars>>

\* The name setter: self._name = newName.
PersonnelRename(i, newName) ==
    /\ i \in PersonnelIds
    /\ persObjs' = [persObjs EXCEPT ![i].name = newName]
    /\ UNCHANGED <<roleVars, rotaVars, stnVars, applVars>>

PersonnelInitial == persObjs = <<>>

PersonnelNext ==
    \/ \E name \in PersonnelNames, role \in PersonnelRoles :
          PersonnelInit(name, role)
    \/ \E i \in PersonnelIds, newName \in PersonnelNames :
          PersonnelRename(i, newName)
    \/ \E i \in PersonnelIds, found \in BOOLEAN, call \in AddRoleCalls :
          RotaAddRole(i, found, call[1], call[2])

PersonnelIdle == persObjs = <<>>

(***************************************************************************)
(* Appliance and Vehicle                                                   *)
(***************************************************************************)

\* The objects: one Appliance and two Vehicles made from it.
TheAppliance == "a"
TheVehicles == {"v1", "v2"}
ApplNames == {TheAppliance} \cup TheVehicles

\* The Roles crews are made of, and the crew dict objects in the heap.
CrewRoles == {"A", "B"}
CrewRefs == 1..3
NoCrew == [k \in {} |-> 0]
NoRef == 0

\* A name not bound yet, and an Appliance object: self._crew is a reference
\* to a dict, self._limits a list of its own.
NoAppliance == [live |-> FALSE, _crew |-> NoRef, _limits |-> <<0, 0>>]
ApplianceObj(ref, minimum, maximum) ==
    [live |-> TRUE, _crew |-> ref, _limits |-> <<minimum, maximum>>]

\* sum(crew.values())
RECURSIVE SumValues(_)
SumValues(d) ==
    IF DOMAIN d = {} THEN 0
    ELSE LET k == CHOOSE x \in DOMAIN d : TRUE
         IN  d[k] + SumValues([x \in (DOMAIN d) \ {k} |-> d[x]])

\* {i: v for (i, v) in self._crew.items() if v}
Filtered(d) == [k \in {x \in DOMAIN d : d[x] # 0} |-> d[k]]

\* A dict object newly built for the object o: a cell no other object
\* points to.
FreshRef(objs, o) ==
    CHOOSE r \in CrewRefs :
        /\ \A x \in ApplNames \ {o} : objs[x]._crew # r
        /\ \A q \in CrewRefs :
              (\A x \in ApplNames \ {o} : objs[x]._crew # q) => r <= q

\* The heap without the dicts nothing points to any more.
Collected(objs, heap) ==
    [r \in CrewRefs |-> IF \E x \in ApplNames : objs[x]._crew = r
                        THEN heap[r] ELSE NoCrew]

ApplOutcome(out, objs, heap) ==
    [out |-> out, objs |-> objs, heap |-> Collected(objs, heap)]

\* A slip of Appliance.crew: the filtered dict is returned but self._crew
\* keeps pointing to the dict it pointed to.
CrewReadInPlace(objs, heap, o) ==
    ApplOutcome("ok", objs,
                [heap EXCEPT ![objs[o]._crew] = Filtered(heap[objs[o]._crew])])

\* Appliance.crew: self._crew is rebound to a new, filtered dict, which is
\* returned.
CrewRead(objs, heap, o) ==
    LET ref == FreshRef(objs, o)
    IN  ApplOutcome("ok", [objs EXCEPT ![o]._crew = ref],
                    [heap EXCEPT ![ref] = Filtered(heap[objs[o]._crew])])

\* Appliance.__init__(name, crew, minimum, maximum) on the dict object
\* `ref`; a raise leaves the name o unbound.
ApplianceInitBody(objs, heap, o, ref, minimum, maximum) ==
    LET total == SumValues(heap[ref])
    IN  IF DOMAIN heap[ref] = {} THEN ApplOutcome("ValueError", objs, heap)
        ELSE IF maximum < minimum THEN ApplOutcome("ValueError", objs, heap)
        ELSE ApplOutcome("ok",
                [objs EXCEPT ![o] =
                    ApplianceObj(ref, minimum,
                                 IF maximum >= total THEN maximum ELSE total)],
                heap)

\* Appliance(name, crew, minimum, maximum) with a dict of the caller.
ApplianceInitResult(objs, heap, o, crew, minimum, maximum) ==
    LET ref == FreshRef(objs, o)
    IN  ApplianceInitBody(objs, [heap EXCEPT ![ref] = crew], o, ref,
                          minimum, maximum)

\* Vehicle(callsign, appliance, plateNumber): line 369 reads appliance.crew
\* and hands the dict it returns, with the unpacked limits, to
\* Appliance.__init__.
VehicleInitResult(objs, heap, v, a) ==
    LET read == CrewRead(objs, heap, a)
    IN  ApplianceInitBody(read.objs, read.heap, v, read.objs[a]._crew,
                          objs[a]._limits[1], objs[a]._limits[2])

\* The first argument of change: a Role with a value, a dict, or anything
\* else.  The value 0 also stands for a value left out (None).
RoleChange(role, value) == [form |-> "Role", items |-> [k \in {role} |-> value]]
DictChange(d) == [form |-> "dict", items |-> d]
OtherChange == [form |-> "other", items |-> NoCrew]

\* Appliance.change(role, value, minimum, maximum); 0 for a limit left out.
ChangeResult(objs, heap, o, arg, minimum, maximum) ==
    LET lim == <<IF minimum # 0 THEN minimum ELSE objs[o]._limits[1],
                 IF maximum # 0 THEN maximum ELSE objs[o]._limits[2]>>
        limited == [objs EXCEPT ![o]._limits = lim]
        read == CrewRead(limited, heap, o)
        ref == read.objs[o]._crew
        crew == DictMerge(read.heap[ref], arg.items)
    IN  IF arg.form = "other" THEN ApplOutcome("TypeError", limited, heap)
        ELSE IF arg.form = "Role" /\ \E k \in DOMAIN arg.items : arg.items[k] = 0
        THEN ApplOutcome("AttributeError", limited, heap)
        ELSE IF SumValues(crew) > lim[2]
        THEN ApplOutcome("ValueError", read.objs, read.heap)
        ELSE ApplOutcome("ok", read.objs, [read.heap EXCEPT ![ref] = crew])

\* The head counts, crews and limits the callers pass.
CrewCounts == {0, 1, 2}
InitCrews ==
    {NoCrew, [k \in CrewRoles |-> 1], [k \in {"A"} |-> 2],
     ("A" :> 0 @@ "B" :> 1)}
InitLimits == {<<1, 1>>, <<1, 3>>, <<2, 1>>}
ChangeArgs ==
    {RoleChange(role, value) : role \in CrewRoles, value \in CrewCounts}
        \cup {DictChange(NoCrew), DictChange([k \in CrewRoles |-> 2]),
              OtherChange}

\* The change calls: every argument without limits, and two calls that
\* also set maximum=1.
ChangeCalls ==
    {<<arg, 0, 0>> : arg \in ChangeArgs}
        \cup {<<RoleChange("A", 1), 0, 1>>, <<DictChange(NoCrew), 0, 1>>}

\* Calls that set a new minimum, alone or together with a maximum.
LimitCalls ==
    {<<DictChange(NoCrew), 2, 0>>, <<DictChange(NoCrew), 2, 3>>,
     <<RoleChange("A", 1), 3, 0>>}

ApplApply(op, o, r) ==
    /\ applObjs' = r.objs
    /\ applHeap' = r.heap
    /\ applRet' = [op |-> IF op = "change" THEN op ELSE "other", out |-> r.out]
    /\ UNCHANGED <<roleVars, rotaVars, stnVars, persVars>>

ApplianceInit(crew, limits) ==
    /\ ~applObjs[TheAppliance].live
    /\ ApplApply("init", TheAppliance,
                 ApplianceInitResult(applObjs, applHeap, TheAppliance, crew,
                                     limits[1], limits[2]))

VehicleInit(v) ==
    /\ applObjs[TheAppliance].live
    /\ ~applObjs[v].live
    /\ ApplApply("init", v, VehicleInitResult(applObjs, applHeap, v, TheAppliance))

ApplianceCrew(o) ==
    /\ applObjs[o].live
    /\ ApplApply("crew", o, CrewRead(applObjs, applHeap, o))

ApplianceChange(o, arg, minimum, maximum) ==
    /\ applObjs[o].live
    /\ ApplApply("change", o,
                 ChangeResult(applObjs, applHeap, o, arg, minimum, maximum))

ApplianceInitial ==
    /\ applObjs = [o \in ApplNames |-> NoAppliance]
    /\ applHeap = [r \in CrewRefs |-> NoCrew]
    /\ applRet = [op |-> "other", out |-> "ok"]

ApplianceNext ==
    \/ \E crew \in InitCrews, limits \in InitLimits : ApplianceInit(crew, limits)
    \/ \E v \in TheVehicles : VehicleInit(v)
    \/ \E o \in ApplNames : ApplianceCrew(o)
    \/ \E o \in ApplNames, call \in ChangeCalls :
          ApplianceChange(o, call[1], call[2], call[3])

ApplianceIdle == ApplianceInitial

(***************************************************************************)
(* Station                                                                 *)
(***************************************************************************)

\* The four registries, by the attribute that holds them, in the order in
\* which Station.data merges them.
Kinds == <<"_roles", "_appliances", "_vehicles", "_rotas">>
KindSet == SeqRange(Kinds)

\* The class each registrar builds: role, appliance, vehicle, rota.
ClassOf(kind) ==
    CASE kind = "_roles" -> "Role"
      [] kind = "_appliances" -> "Appliance"
      [] kind = "_vehicles" -> "Vehicle"
      [] OTHER -> "Rota"

\* Keys: names and callsigns are str, a Rota identifier may be an int (an
\* int is spelled with a leading #).
StrKeys == {"PL", "X1"}
IntKeys == {"#1", "#2"}
Keys == StrKeys \cup IntKeys
IsStr(key) == key \in StrKeys

\* An asset: its class, the attribute the registrar reads as its key (role,
\* appliance, callsign or rota), for a Vehicle the name of its Appliance, and
\* the attribute `active`: the run state of a Vehicle, not set on the
\* objects of the other classes.
Asset(cls, name, appliance, active) ==
    [cls |-> cls, name |-> name, appliance |-> appliance, active |-> active]
NoFlag == "unset"
NoAsset == Asset("None", "", "", NoFlag)

\* The Appliance handed to Station.vehicle by the callers.
TemplateAppliance == "PL"

\* The dict objects a Station can hold apart, and a dict with no entry.
DictRefs == 1..4
NoEntries == [k \in {} |-> NoAsset]

\* Line 654: self._roles = self._appliances = self._vehicles = self._rotas = {}
\* binds the four attributes to ONE dict object.
InitSlots == [kind \in KindSet |-> 1]
InitHeap == [d \in DictRefs |-> NoEntries]

\* The registry behind an attribute, and Station.data: the four registries
\* merged, later ones winning.
Registry(slot, heap, kind) == heap[slot[kind]]
StationData(slot, heap) ==
    DictMerge(DictMerge(DictMerge(Registry(slot, heap, "_roles"),
                                  Registry(slot, heap, "_appliances")),
                        Registry(slot, heap, "_vehicles")),
              Registry(slot, heap, "_rotas"))

\* pickle.dump of the tuple of the four dicts keeps which of them are one
\* object; pickle.load gives them back with the same sharing.
Pickled(slot, heap) ==
    [slot |-> slot,
     heap |-> [d \in DictRefs |-> IF \E k \in KindSet : slot[k] = d
                                  THEN heap[d] ELSE NoEntries]]

\* What a Station call hands back.
StnOutcome(out, val, slot, heap, file) ==
    [out |-> out, val |-> val, slot |-> slot, heap |-> heap, file |-> file]

\* Station._save and Station._load (the file exists once the Station does).
StationSaveResult(slot, heap, file) ==
    StnOutcome("ok", NoAsset, slot, heap, Pickled(slot, heap))

StationLoadResult(slot, heap, file) ==
    StnOutcome("ok", NoAsset, file.slot, file.heap, file)

\* Asset(arg1, **kwargs) for a key arg1: the constructor of the class, which
\* raises when the other arguments do not fit (no crew for an Appliance, no
\* Appliance for a Vehicle).
Construct(kind, key, fit) ==
    CASE kind = "_roles" -> [out |-> "ok", asset |-> Asset("Role", key, "", NoFlag)]
      [] kind = "_appliances" ->
            IF fit THEN [out |-> "ok", asset |-> Asset("Appliance", key, key, NoFlag)]
            ELSE [out |-> "ValueError", asset |-> NoAsset]
      [] kind = "_vehicles" ->
            IF fit THEN [out |-> "ok",
                         asset |-> Asset("Vehicle", key, TemplateAppliance, PyTrue)]
            ELSE [out |-> "TypeError", asset |-> NoAsset]
      [] OTHER -> [out |-> "ok", asset |-> Asset("Rota", key, "", NoFlag)]

\* Station._addAsset(arg1, Asset, assetIdentifier, assetDict) for a key arg1.
\* assetDict is read before self._load() rebinds the attributes, so the
\* checks after the load still look at the dict of before the load.
AddAssetResult(slot, heap, file, kind, key, fit) ==
    LET assetDict == Registry(slot, heap, kind)
        made == Construct(kind, key, fit)
        loaded == StationLoadResult(slot, heap, file)
        data == StationData(loaded.slot, loaded.heap)
        target == loaded.slot[kind]
        updated == [loaded.heap EXCEPT ![target] =
                       DictMerge(@, [k \in {key} |-> made.asset])]
    IN  IF IsStr(key) /\ key \in DOMAIN assetDict
        THEN StnOutcome("ok", assetDict[key], slot, heap, file)
        ELSE IF made.out # "ok"
        THEN StnOutcome(made.out, NoAsset, slot, heap, file)
        ELSE IF key \in DOMAIN data /\ key \notin DOMAIN assetDict
        THEN StnOutcome("TypeError", NoAsset, loaded.slot, loaded.heap, file)
        ELSE IF key \notin DOMAIN assetDict
        THEN StnOutcome("ok", made.asset, loaded.slot, updated,
                        Pickled(loaded.slot, updated))
        ELSE StnOutcome("ok", assetDict[key], loaded.slot, loaded.heap, file)

\* Station.add(other) for an asset object.  __add__ asks isinstance for
\* Rota, Role, Appliance and only then Vehicle, and a Vehicle is an
\* Appliance, so a Vehicle is handed to Station.appliance, which reads its
\* attribute `appliance`.
AddKind(obj) ==
    CASE obj.cls = "Rota" -> "_rotas"
      [] obj.cls = "Role" -> "_roles"
      [] OTHER -> "_appliances"
AddIdent(obj) == IF AddKind(obj) = "_appliances" THEN obj.appliance ELSE obj.name

\* The key an entry gets when an asset object itself, not its name, is the
\* key: the classes define no __eq__ and no __hash__, so such a key is equal
\* to no str or int, and to no object met after a reload.
ObjKey(cls) == "<" \o cls \o ">"
ObjKeys == {ObjKey(ClassOf(kind)) : kind \in KindSet}

\* Asset(arg1, **kwargs) of _addAsset when arg1 is an asset object and the
\* other arguments have their defaults: Role(obj) is a new Role whose name
\* is obj; Appliance(obj, crew=None) raises ValueError; Rota(obj) tests
\* `not (rota or fileName)`, the truth of a Rota being len(obj) > 0, and
\* either exits or opens a new Rota whose identifier is obj.
Wrap(obj, rosters) ==
    CASE obj.cls = "Role" ->
            [out |-> "ok", asset |-> Asset("Role", ObjKey("Role"), "", NoFlag)]
      [] obj.cls = "Rota" ->
            IF rosters[obj.name] = <<>>
            THEN [out |-> "SystemExit", asset |-> NoAsset]
            ELSE [out |-> "ok", asset |-> Asset("Rota", ObjKey("Rota"), "", NoFlag)]
      [] OTHER -> [out |-> "ValueError", asset |-> NoAsset]

\* Station._addAsset(arg1, Asset, assetIdentifier) for an asset object arg1:
\* the entry found under the identifier of arg1 is returned; else the asset
\* built around arg1 is registered under arg1 itself after the reload.
StationAddResult(slot, heap, file, rosters, obj) ==
    LET kind == AddKind(obj)
        assetDict == Registry(slot, heap, kind)
        made == Wrap(obj, rosters)
        loaded == StationLoadResult(slot, heap, file)
        target == loaded.slot[kind]
        updated == [loaded.heap EXCEPT ![target] =
                       DictMerge(@, [k \in {made.asset.name} |-> made.asset])]
    IN  IF AddIdent(obj) \in DOMAIN assetDict
        THEN StnOutcome("ok", assetDict[AddIdent(obj)], slot, heap, file)
        ELSE IF made.out # "ok"
        THEN StnOutcome(made.out, NoAsset, slot, heap, file)
        ELSE StnOutcome("ok", made.asset, loaded.slot, updated,
                        Pickled(loaded.slot, updated))

\* Station.add(list): [self + i for i in other], left at the first raise.
RECURSIVE StationAddEach(_, _, _, _, _)
StationAddEach(slot, heap, file, rosters, objs) ==
    IF objs = <<>> THEN StnOutcome("ok", NoAsset, slot, heap, file)
    ELSE LET r == StationAddResult(slot, heap, file, rosters, objs[1])
         IN  IF r.out # "ok" THEN r
             ELSE StationAddEach(r.slot, r.heap, r.file, rosters, Tail(objs))

\* The asset objects handed to Station.add, and the list of them.
AddObjs ==
    {Asset("Role", "PL", "", NoFlag), Asset("Appliance", "PL", "PL", NoFlag),
     Asset("Vehicle", "X1", TemplateAppliance, PyTrue),
     Asset("Rota", "#1", "", NoFlag), Asset("Rota", "#2", "", NoFlag)}
AddList == <<Asset("Role", "PL", "", NoFlag), Asset("Vehicle", "X1", TemplateAppliance, PyTrue)>>

\* dict.pop(key, None) on the registry behind an attribute.
Popped(slot, heap, kind, key) ==
    [heap EXCEPT ![slot[kind]] = [k \in (DOMAIN @) \ {key} |-> @[k]]]

\* Station.__sub__ for an asset object: the isinstance chain asks for Rota,
\* Role, Appliance and only then Vehicle, and a Vehicle is an Appliance.
RemoveObject(slot, heap, asset) ==
    CASE asset.cls = "Rota" -> Popped(slot, heap, "_rotas", asset.name)
      [] asset.cls = "Role" -> Popped(slot, heap, "_roles", asset.name)
      [] asset.cls = "Appliance" -> Popped(slot, heap, "_appliances", asset.appliance)
      [] OTHER -> Popped(slot, heap, "_appliances", asset.appliance)

\* Station.remove(other) for a key: a str is looked up in Station.data and
\* the asset found is removed; anything else but an asset or a list raises.
\* Nothing is saved.
RemoveResult(slot, heap, file, key) ==
    IF ~IsStr(key)
    THEN StnOutcome("TypeError", NoAsset, slot, heap, file)
    ELSE IF key \notin DOMAIN StationData(slot, heap)
    THEN StnOutcome("KeyError", NoAsset, slot, heap, file)
    ELSE StnOutcome("ok", NoAsset, slot,
                    RemoveObject(slot, heap, StationData(slot, heap)[key]), file)

\* Station.activate(vehicle, active) for a key: a str found in
\* self.vehicles gets .active assigned on the object stored there; any
\* other str, and anything that is no Vehicle, str or list, raises
\* NameError.  Nothing is saved.
ActivateResult(slot, heap, file, key, active) ==
    IF IsStr(key) /\ key \in DOMAIN Registry(slot, heap, "_vehicles")
    THEN StnOutcome("ok", NoAsset, slot,
                    [heap EXCEPT ![slot["_vehicles"]][key].active = active], file)
    ELSE StnOutcome("NameError", NoAsset, slot, heap, file)

\* Station.offRun(): [self.deactivate(i) for i in self.vehicles] calls
\* activate(key, False) for the keys of the vehicles registry in insertion
\* order and is left by the NameError of the first key that is no str.  The
\* registries keep no order here, so the str keys done before that key are
\* any of them.
OffRunResults(slot, heap, file) ==
    LET vehicles == Registry(slot, heap, "_vehicles")
        strs == {k \in DOMAIN vehicles : IsStr(k)}
        Off(done) ==
            [heap EXCEPT ![slot["_vehicles"]] =
                [k \in DOMAIN @ |->
                    IF k \in done THEN [@[k] EXCEPT !.active = PyFalse] ELSE @[k]]]
    IN  IF strs = DOMAIN vehicles
        THEN {StnOutcome("ok", NoAsset, slot, Off(strs), file)}
        ELSE {StnOutcome("NameError", NoAsset, slot, Off(done), file) :
                 done \in SUBSET strs}

\* Station.active: [i for i in self.vehicles.values() if i.active], by key;
\* reading .active raises on an object that has no such attribute.
StationActive(slot, heap) ==
    LET vehicles == Registry(slot, heap, "_vehicles")
    IN  IF \E k \in DOMAIN vehicles : vehicles[k].active = NoFlag
        THEN [out |-> "AttributeError", keys |-> {}]
        ELSE [out |-> "ok",
              keys |-> {k \in DOMAIN vehicles : vehicles[k].active = PyTrue}]

\* Station.__init__ on the file of an existing Station: fresh registries,
\* then _load.
StationInitResult(slot, heap, file) ==
    StationLoadResult(InitSlots, InitHeap, file)

\* The identifier of a Rota no call ever registers, and all the identifiers
\* a Rota object may carry.
StrayKey == "#7"
RotaKeys == Keys \cup {StrayKey}

\* The Personnel that Station.personnel is asked for, and what the Rota
\* files hold when the Station is opened: the file of Rota 1 holds that
\* Personnel already, the others hold nobody.
Recruit == PersonnelPool[1]
FileRosters == [k \in RotaKeys |-> IF k = "#1" THEN <<Recruit>> ELSE <<>>]

\* The `rota` argument of Station.personnel: a Rota object, an int, a str,
\* a list of Rota objects or a list of ints.
RotaRef(key) == [form |-> "Rota", keys |-> <<key>>]
IntRef(key) == [form |-> "int", keys |-> <<key>>]
StrRef(key) == [form |-> "str", keys |-> <<key>>]
RotaRefs(keys) == [form |-> "Rotas", keys |-> keys]
IntRefs(keys) == [form |-> "ints", keys |-> keys]

\* What Station.personnel hands back: the outcome, the list `result`, the
\* list `errs` of the failures it reports (line 909 binds both names to one
\* list), and the rosters afterwards.
PersOutcome(out, result, rosters) ==
    [out |-> out, result |-> result, errs |-> result, rosters |-> rosters]

\* r + p for one resolved target r: Rota.__add__ under safeLoad for a Rota,
\* Role.__add__ for a Role, and no __add__ at all for an Appliance or a
\* Vehicle (the TypeError is caught and raised again).
TargetAdd(rosters, target, p) ==
    CASE target.cls = "Rota" ->
            LET r == RotaAddCall([h \in Handles |-> NewRota(target.name)],
                                 DataFile(target.name, rosters[target.name]),
                                 1, PersonnelArg(p))
            IN  [out |-> r.out,
                 rosters |-> IF r.file.state = "data"
                             THEN [rosters EXCEPT ![target.name] = r.file.personnel]
                             ELSE rosters]
      [] target.cls = "Role" -> [out |-> "ok", rosters |-> rosters]
      [] OTHER -> [out |-> "TypeError", rosters |-> rosters]

\* The loop `for r in rota` of Station.personnel for a name and a Role.
RECURSIVE PersonnelLoop(_, _, _, _)
PersonnelLoop(rosters, targets, p, result) ==
    IF targets = <<>>
    THEN PersOutcome(IF result = <<>> THEN "IndexError" ELSE "ok", result, rosters)
    ELSE LET a == TargetAdd(rosters, targets[1], p)
         IN  IF a.out # "ok" THEN PersOutcome(a.out, result, a.rosters)
             ELSE PersonnelLoop(a.rosters, Tail(targets), p, Append(result, p))

\* Station.personnel(rota, name, role) with a str name and a Role.
StationPersonnelResult(slot, heap, rosters, ref, p) ==
    LET rotas == Registry(slot, heap, "_rotas")
        data == StationData(slot, heap)
        key == ref.keys[1]
        found == [i \in 1..Len(ref.keys) |-> data[ref.keys[i]]]
        asGiven == [i \in 1..Len(ref.keys) |-> Asset("Rota", ref.keys[i], "", NoFlag)]
    IN  CASE ref.form = "Rota" ->
                IF key \notin DOMAIN rotas
                THEN PersOutcome("KeyError", <<>>, rosters)
                ELSE PersonnelLoop(rosters, <<data[key]>>, p, <<>>)
          [] ref.form = "int" ->
                \* line 897: a registered identifier is the one refused
                IF key \in DOMAIN rotas \/ key \notin DOMAIN data
                THEN PersOutcome("KeyError", <<>>, rosters)
                ELSE PersonnelLoop(rosters, <<data[key]>>, p, <<>>)
          [] ref.form = "Rotas" -> PersonnelLoop(rosters, asGiven, p, <<>>)
          [] ref.form = "ints" ->
                IF \E i \in 1..Len(ref.keys) : ref.keys[i] \notin DOMAIN data
                THEN PersOutcome("KeyError", <<>>, rosters)
                ELSE PersonnelLoop(rosters, found, p, <<>>)
          [] OTHER -> PersOutcome("TypeError", <<>>, rosters)

\* The rota arguments the callers pass.
PersonnelRefs ==
    {RotaRef(key) : key \in RotaKeys}
        \cup {IntRef(key) : key \in IntKeys \cup {StrayKey}}
        \cup {StrRef("PL"), RotaRefs(<<StrayKey, "#1", "#2">>),
              IntRefs(<<StrayKey, "#1", "#2">>), IntRefs(<<"#1", "#2">>)}

StnApply(r) ==
    /\ stnSlot' = r.slot
    /\ stnHeap' = r.heap
    /\ stnFile' = r.file
    /\ stnRet' = [out |-> r.out]
    /\ stnRosters' = stnRosters
    /\ stnRoles' = stnRoles
    /\ UNCHANGED <<roleVars, rotaVars, persVars, applVars>>

\* Station.role, .appliance, .vehicle and .rota called with a key.
StationRegister(kind, key, fit) ==
    /\ key \in IntKeys => kind = "_rotas"
    /\ StnApply(AddAssetResult(stnSlot, stnHeap, stnFile, kind, key, fit))

StationRemove(key) ==
    /\ key \in Keys
    /\ StnApply(RemoveResult(stnSlot, stnHeap, stnFile, key))

\* Station.add(other) with an asset object or a list of them.  Every call
\* that registers an object under itself adds one more entry; the model
\* stops at one such entry.
StationAdd(objs) ==
    /\ DOMAIN StationData(stnFile.slot, stnFile.heap) \cap ObjKeys = {}
    /\ StnApply(StationAddEach(stnSlot, stnHeap, stnFile, stnRosters, objs))

\* Station.activate(vehicle) and Station.deactivate(vehicle) with a key.
StationActivate(key, active) ==
    /\ key \in Keys
    /\ StnApply(ActivateResult(stnSlot, stnHeap, stnFile, key, active))

\* Station.offRun().
StationOffRun ==
    \E r \in OffRunResults(stnSlot, stnHeap, stnFile) : StnApply(r)

\* Station.personnel(rota, name, role).
StationPersonnel(ref) ==
    /\ ref \in PersonnelRefs
    /\ LET r == StationPersonnelResult(stnSlot, stnHeap, stnRosters, ref, Recruit)
       IN  /\ stnRosters' = r.rosters
           /\ stnRet' = [out |-> r.out]
    /\ UNCHANGED <<stnSlot, stnHeap, stnFile, stnRoles>>
    /\ UNCHANGED <<roleVars, rotaVars, persVars, applVars>>

StationInit ==
    StnApply(StationInitResult(stnSlot, stnHeap, stnFile))

StationSave ==
    StnApply(StationSaveResult(stnSlot, stnHeap, stnFile))

StationLoad ==
    StnApply(StationLoadResult(stnSlot, stnHeap, stnFile))

\* The Roles of a Station as objects: a heap of Role objects, each naming its
\* parent by its place in the heap, and the registry from names to places.
\* The file holds such a graph too: pickle.dump writes the objects reachable
\* from the registry, pickle.load builds new objects from them.
RoleNames == SeqRange(SubSeq(RoleNamePool, 1, MaxRoles))
Graph(heap, reg) == [heap |-> heap, reg |-> reg]
NoGraph == Graph(<<>>, [n \in {} |-> NoRole])
NoRoles == [heap |-> <<>>, reg |-> NoGraph.reg, file |-> NoGraph]

\* Station('stn') in an empty directory: _load finds no file and saves.
StationFresh ==
    /\ stnSlot = InitSlots
    /\ stnHeap = InitHeap
    /\ stnFile = Pickled(InitSlots, InitHeap)
    /\ stnRet = [out |-> "ok"]
    /\ stnRoles = NoRoles

StationInitial ==
    /\ StationFresh
    /\ stnRosters = FileRosters

StationIdle ==
    /\ StationFresh
    /\ stnRosters = [k \in RotaKeys |-> <<>>]

StationNext ==
    \/ \E kind \in KindSet, key \in Keys, fit \in BOOLEAN :
          StationRegister(kind, key, fit)
    \/ \E key \in Keys : StationRemove(key)
    \/ \E objs \in {<<obj>> : obj \in AddObjs} \cup {AddList} : StationAdd(objs)
    \/ \E key \in Keys, active \in PyBool : StationActivate(key, active)
    \/ \E ref \in PersonnelRefs : StationPersonnel(ref)
    \/ StationOffRun
    \/ StationInit
    \/ StationSave
    \/ StationLoad

RoleIdle == roleObjs = <<>>
RotaIdle ==
    /\ rotaCall = NoCall
    /\ rotaObjs = [h \in Handles |-> NoRota]
    /\ rotaFile = AbsentFile
    /\ rotaRet = [op |-> "none", h |-> 0, out |-> "ok", val |-> PyNone]

(***************************************************************************)
(* Station: the Role objects behind the roles registry                     *)
(***************************************************************************)

\* A Role object and its ancestors.
RECURSIVE Chain(_, _)
Chain(heap, i) ==
    IF i = NoRole THEN {} ELSE {i} \cup Chain(heap, heap[i]._inheritance)

\* The objects reachable from the registry, kept in their order and
\* numbered anew: what stays alive of a heap, and what pickle.dump writes.
Position(keep, i) == Cardinality({j \in keep : j <= i})
Reachable(heap, reg) ==
    LET keep == UNION {Chain(heap, reg[n]) : n \in DOMAIN reg}
        Nth(n) == CHOOSE i \in keep : Position(keep, i) = n
    IN  Graph([n \in 1..Cardinality(keep) |->
                  [heap[Nth(n)] EXCEPT !._inheritance =
                      IF @ = NoRole THEN NoRole ELSE Position(keep, @)]],
              [n \in DOMAIN reg |-> Position(keep, reg[n])])

\* The objects of one heap put behind k others.
Shifted(heap, k) ==
    [i \in 1..Len(heap) |->
        [heap[i] EXCEPT !._inheritance = IF @ = NoRole THEN NoRole ELSE @ + k]]

\* Station.role(name, constraint, inherit=x) for a name, x being a Role
\* object of the Station's heap or None: _addAsset builds the Role, calls
\* self._load(), which rebinds the registry to new objects built from the
\* file, and then registers the Role and saves.  The Role built keeps the
\* parent it was given, an object of before the load.
RegisterRoleResult(st, name, c, x) ==
    LET old == Reachable(st.heap, [n \in {name} |-> x])
        behind == Len(st.file.heap)
        loaded == st.file.heap \o Shifted(old.heap, behind)
        parent == IF x = NoRole THEN NoRole ELSE old.reg[name] + behind
        made == RoleInitResult(loaded, name, c, PyFalse, parent)
        reg == [n \in DOMAIN st.file.reg \cup {name} |->
                   IF n = name THEN Len(made.objs) ELSE st.file.reg[n]]
        kept == Reachable(made.objs, reg)
    IN  IF name \in DOMAIN st.reg THEN [out |-> "ok", st |-> st]
        ELSE IF made.out # "ok" THEN [out |-> made.out, st |-> st]
        ELSE IF name \in DOMAIN st.file.reg
        THEN [out |-> "TypeError",
              st |-> [st EXCEPT !.heap = st.file.heap, !.reg = st.file.reg]]
        ELSE [out |-> "ok",
              st |-> [heap |-> kept.heap, reg |-> kept.reg, file |-> kept]]

\* station.roles[name].constraint(constraint, rule): on the object in
\* memory; nothing is saved.
RoleOfStationResult(st, name, c, rule) ==
    LET res == RoleConstraintResult(st.heap[st.reg[name]]._constraints, c, rule)
    IN  [out |-> res.out,
         st |-> [st EXCEPT !.heap[st.reg[name]]._constraints = res.own]]

\* Station(name) on the file: the registry is rebound to new objects.
ReopenResult(st) ==
    [out |-> "ok", st |-> [st EXCEPT !.heap = st.file.heap, !.reg = st.file.reg]]

StationRolesApply(r) ==
    /\ stnRoles' = r.st
    /\ UNCHANGED <<stnSlot, stnHeap, stnFile, stnRet, stnRosters>>
    /\ UNCHANGED <<roleVars, rotaVars, persVars, applVars>>

\* The constraints given to a Role at registration.
RegisterArgs == {NoneArg, DictArg([k \in {VehicleY} |-> PyTrue])}

StationRole(name, c, parentName) ==
    /\ name \in RoleNames
    /\ parentName \in DOMAIN stnRoles.reg
    /\ StationRolesApply(RegisterRoleResult(stnRoles, name, c,
                                            stnRoles.reg[parentName]))

StationRoleAlone(name, c) ==
    /\ name \in RoleNames
    /\ StationRolesApply(RegisterRoleResult(stnRoles, name, c, NoRole))

StationRoleConstraint(name, v, rule) ==
    /\ name \in DOMAIN stnRoles.reg
    /\ StationRolesApply(RoleOfStationResult(stnRoles, name, VehicleArg(v), rule))

StationReopen == StationRolesApply(ReopenResult(stnRoles))

StationRolesNext ==
    \/ \E name \in RoleNames, c \in RegisterArgs, parentName \in RoleNames :
          StationRole(name, c, parentName)
    \/ \E name \in RoleNames, c \in RegisterArgs : StationRoleAlone(name, c)
    \/ \E name \in RoleNames, rule \in PyBool :
          StationRoleConstraint(name, VehicleX, rule)
    \/ StationReopen

(***************************************************************************)
(* Specifications: one per component, the other components at rest.        *)
(***************************************************************************)
InitRole == RoleInitial /\ RotaIdle /\ StationIdle /\ PersonnelIdle /\ ApplianceIdle
SpecRole == InitRole /\ [][RoleNext]_vars

InitRota == RotaInitial /\ RoleIdle /\ StationIdle /\ PersonnelIdle /\ ApplianceIdle
SpecRota == InitRota /\ [][RotaNext]_vars

InitStation == StationInitial /\ RoleIdle /\ RotaIdle /\ PersonnelIdle /\ ApplianceIdle
SpecStation == InitStation /\ [][StationNext]_vars

InitPersonnel == PersonnelInitial /\ RoleIdle /\ RotaIdle /\ StationIdle /\ ApplianceIdle
SpecPersonnel == InitPersonnel /\ [][PersonnelNext]_vars

InitAppliance ==
    ApplianceInitial /\ RoleIdle /\ RotaIdle /\ StationIdle /\ PersonnelIdle
SpecAppliance == InitAppliance /\ [][ApplianceNext]_vars

InitStationRoles ==
    StationIdle /\ RoleIdle /\ RotaIdle /\ PersonnelIdle /\ ApplianceIdle
SpecStationRoles == InitStationRoles /\ [][StationRolesNext]_vars

(***************************************************************************)
(* Station: registries, personnel, activation, removal, add and offRun     *)
(* (C1 - C3, C16 - C19, C22, C28, C29)                                     *)
(***************************************************************************)

\* A key is registered under a kind when the registry of that kind holds an
\* asset of the kind's class under it.
RegisteredUnder(kind, key) ==
    /\ key \in DOMAIN Registry(stnSlot, stnHeap, kind)
    /\ Registry(stnSlot, stnHeap, kind)[key].cls = ClassOf(kind)

\* A call left the four registries as they were.
SameRegistries(r) ==
    \A kind \in KindSet :
        Registry(r.slot, r.heap, kind) = Registry(stnSlot, stnHeap, kind)

\* C1: once a key is registered under one kind, registering it under any
\* other kind raises TypeError and changes neither the registries in memory
\* nor the Station file.
C1_CrossKindRejected ==
    \A kind \in KindSet, other \in KindSet, key \in StrKeys :
        (RegisteredUnder(kind, key) /\ other # kind) =>
            LET r == AddAssetResult(stnSlot, stnHeap, stnFile, other, key, TRUE)
            IN  /\ r.out = "TypeError"
                /\ SameRegistries(r)
                /\ r.file = stnFile

\* C2: in every reachable state each registry holds only assets of its own
\* kind, each under its own key, so a key inserted into one registry shows
\* up in no other.
C2_RegistriesIndependent ==
    \A kind \in KindSet :
        \A key \in DOMAIN Registry(stnSlot, stnHeap, kind) :
            /\ Registry(stnSlot, stnHeap, kind)[key].cls = ClassOf(kind)
            /\ Registry(stnSlot, stnHeap, kind)[key].name = key

\* C3: a registrar called with a key its registry already holds returns the
\* registered asset and leaves every registry unchanged, whatever the other
\* arguments are.
C3_IdempotentRegistration ==
    \A kind \in KindSet, key \in Keys, fit \in BOOLEAN :
        RegisteredUnder(kind, key) =>
            LET r == AddAssetResult(stnSlot, stnHeap, stnFile, kind, key, fit)
            IN  /\ r.out = "ok"
                /\ r.val = Registry(stnSlot, stnHeap, kind)[key]
                /\ SameRegistries(r)

\* The Rota files other than those of the given identifiers are as before.
RostersKept(r, keys) ==
    \A k \in RotaKeys \ keys : r.rosters[k] = stnRosters[k]

\* C16: personnel(rota, name, role) for a Rota object or an identifier adds
\* the Personnel to the Rota and returns it when the Rota is registered, and
\* raises KeyError, changing no Rota, when it is not.
C16_PersonnelResolution ==
    \A ref \in {RotaRef(key) : key \in RotaKeys}
                \cup {IntRef(key) : key \in IntKeys \cup {StrayKey}} :
        LET key == ref.keys[1]
            r == StationPersonnelResult(stnSlot, stnHeap, stnRosters, ref, Recruit)
        IN  IF RegisteredUnder("_rotas", key)
            THEN /\ r.out = "ok"
                 /\ r.result = <<Recruit>>
                 /\ PersonnelId(Recruit) \in IdSet(r.rosters[key])
                 /\ RostersKept(r, {key})
            ELSE /\ r.out = "KeyError"
                 /\ RostersKept(r, {})

\* C17: with a list of one unresolvable and two registered Rota references
\* the call does not raise, both registered Rotas get the Personnel and
\* exactly one failure is reported.
C17_BatchPartialFailure ==
    \A ref \in {RotaRefs(<<StrayKey, "#1", "#2">>),
                IntRefs(<<StrayKey, "#1", "#2">>)} :
        (RegisteredUnder("_rotas", "#1") /\ RegisteredUnder("_rotas", "#2")) =>
            LET r == StationPersonnelResult(stnSlot, stnHeap, stnRosters, ref, Recruit)
            IN  /\ r.out = "ok"
                /\ PersonnelId(Recruit) \in IdSet(r.rosters["#1"])
                /\ PersonnelId(Recruit) \in IdSet(r.rosters["#2"])
                /\ RostersKept(r, {"#1", "#2"})
                /\ Len(r.errs) = 1

\* C18: activate/deactivate with the callsign of a registered Vehicle sets
\* that Vehicle's active flag and changes no other asset; with any other
\* string, the key of a Role, an Appliance or a Rota included, the call
\* raises NameError and changes no asset.
C18_ActivateByCallsign ==
    \A key \in StrKeys, active \in PyBool :
        LET r == ActivateResult(stnSlot, stnHeap, stnFile, key, active)
            vehicles == Registry(stnSlot, stnHeap, "_vehicles")
        IN  IF RegisteredUnder("_vehicles", key)
            THEN /\ r.out = "ok"
                 /\ \A kind \in KindSet :
                       Registry(r.slot, r.heap, kind) =
                          IF key \in DOMAIN Registry(stnSlot, stnHeap, kind)
                          THEN [Registry(stnSlot, stnHeap, kind)
                                   EXCEPT ![key].active = active]
                          ELSE Registry(stnSlot, stnHeap, kind)
            ELSE /\ r.out = "NameError"
                 /\ SameRegistries(r)

\* The keys a Station holds, in memory and in its file.
KeysHeld(slot, heap) == DOMAIN StationData(slot, heap)

\* C19: once remove(asset) has returned for a registered asset its key is in
\* no registry and not in the Station file, and it is still absent after a
\* later registration of another key.
C19_RemovalIsDurable ==
    \A key \in StrKeys :
        key \in KeysHeld(stnSlot, stnHeap) =>
            LET r == RemoveResult(stnSlot, stnHeap, stnFile, key)
            IN  /\ r.out = "ok"
                /\ key \notin KeysHeld(r.slot, r.heap)
                /\ key \notin KeysHeld(r.file.slot, r.file.heap)
                /\ \A kind \in KindSet, other \in Keys \ {key} :
                      (other \in IntKeys => kind = "_rotas") =>
                          LET n == AddAssetResult(r.slot, r.heap, r.file,
                                                  kind, other, TRUE)
                          IN  /\ key \notin KeysHeld(n.slot, n.heap)
                              /\ key \notin KeysHeld(n.file.slot, n.file.heap)

\* C29: once activate(callsign) or deactivate(callsign) has returned for a
\* registered Vehicle, the Station file carries the flag it set, and the
\* registered Vehicle still has it after a later registration of another
\* asset.
C29_ActivationIsDurable ==
    \A key \in StrKeys, active \in PyBool :
        (RegisteredUnder("_vehicles", key)
            /\ Registry(stnSlot, stnHeap, "_vehicles")[key].cls = "Vehicle") =>
            LET r == ActivateResult(stnSlot, stnHeap, stnFile, key, active)
                saved == Registry(r.file.slot, r.file.heap, "_vehicles")
            IN  /\ r.out = "ok"
                /\ key \in DOMAIN saved /\ saved[key].active = active
                /\ \A kind \in KindSet, other \in Keys \ {key} :
                      (other \in IntKeys => kind = "_rotas") =>
                          LET n == AddAssetResult(r.slot, r.heap, r.file,
                                                  kind, other, TRUE)
                              kept == Registry(n.slot, n.heap, "_vehicles")
                          IN  key \in DOMAIN kept /\ kept[key].active = active

\* The assets registered, by registry, that are Vehicles or are not.
AssetsOf(slot, heap, kind, vehicle) ==
    LET reg == Registry(slot, heap, kind)
    IN  [k \in {x \in DOMAIN reg : (reg[x].cls = "Vehicle") = vehicle} |-> reg[k]]

\* C28: with any mix of registered assets, Rotas with int identifiers
\* included, offRun() completes without error; afterwards every registered
\* Vehicle has active = False, Station.active is empty, and no asset other
\* than a Vehicle was modified.
C28_OffRunDeactivatesAll ==
    \A r \in OffRunResults(stnSlot, stnHeap, stnFile) :
        /\ r.out = "ok"
        /\ \A kind \in KindSet :
              /\ \A k \in DOMAIN AssetsOf(r.slot, r.heap, kind, TRUE) :
                    AssetsOf(r.slot, r.heap, kind, TRUE)[k].active = PyFalse
              /\ AssetsOf(r.slot, r.heap, kind, FALSE) =
                    AssetsOf(stnSlot, stnHeap, kind, FALSE)
        /\ StationActive(r.slot, r.heap) = [out |-> "ok", keys |-> {}]

\* The registry of the kind of an asset object, and the key of the object.
OwnKind(obj) ==
    CASE obj.cls = "Role" -> "_roles"
      [] obj.cls = "Appliance" -> "_appliances"
      [] obj.cls = "Vehicle" -> "_vehicles"
      [] OTHER -> "_rotas"

\* C22: add(asset) with an asset object whose key is not registered yet
\* registers the asset in the registry of its own kind under its own key and
\* returns it; a Vehicle is registered in the vehicles registry under its
\* callsign.
C22_AddRegistersObject ==
    \A obj \in AddObjs :
        obj.name \notin DOMAIN StationData(stnSlot, stnHeap) =>
            LET r == StationAddResult(stnSlot, stnHeap, stnFile, stnRosters, obj)
            IN  /\ r.out = "ok"
                /\ r.val = obj
                /\ obj.name \in DOMAIN Registry(r.slot, r.heap, OwnKind(obj))
                /\ Registry(r.slot, r.heap, OwnKind(obj))[obj.name] = obj

(***************************************************************************)
(* Station: inheritance between registered Roles (C30)                     *)
(***************************************************************************)

\* The registered Role c has a parent named like a registered Role.
ChildOfRegistered(st, c, p) ==
    /\ c \in DOMAIN st.reg /\ p \in DOMAIN st.reg
    /\ st.heap[st.reg[c]]._inheritance # NoRole
    /\ st.heap[st.heap[st.reg[c]]._inheritance].role = p

\* C30: for Roles registered as P and then C with inherit=P, after any
\* further registrations the parent of the registered C is the very Role
\* registered under the name of P, so that a constraint declared on
\* station.roles[P] shows in the effective constraints of the registered C
\* unless C declares that Vehicle itself.
C30_InheritanceSurvives ==
    \A c, p \in RoleNames :
        ChildOfRegistered(stnRoles, c, p) =>
            /\ stnRoles.heap[stnRoles.reg[c]]._inheritance = stnRoles.reg[p]
            /\ \A v \in Vehicles, rule \in PyBool :
                  LET r == RoleOfStationResult(stnRoles, p, VehicleArg(v), rule)
                      eff == constraints(r.st.heap, r.st.reg[c])
                  IN  v \notin DOMAIN stnRoles.heap[stnRoles.reg[c]]._constraints
                         => v \in DOMAIN eff /\ eff[v] = rule

(***************************************************************************)
(* Rota: add, sub and the round trip through the file (C4 - C8)            *)
(***************************************************************************)

\* The values of rota.personnel, and the roster as a set of Personnel.
RosterOf(obj) == DictOfItems(obj.items)
RosterSet(obj) == SeqRange(RosterOf(obj))

\* A Rota object whose memory agrees with the file it is backed by.
InSync(h) ==
    /\ rotaObjs[h].live
    /\ rotaFile.state = "data"
    /\ ~PersonnelRaises(rotaObjs[h])
    /\ RosterOf(rotaObjs[h]) = rotaFile.personnel

\* C4: add(p) of a Personnel completes and leaves rota.personnel mapping
\* p.id to p; when p.id was absent the mapping gained exactly that entry,
\* when it was present the mapping is unchanged.
C4_AddSetSemantics ==
    \A h \in Handles, p \in PersonnelObjs :
        InSync(h) =>
            LET r == RotaAddResult(rotaObjs, rotaFile, h, PersonnelArg(p))
                before == RosterSet(rotaObjs[h])
            IN  /\ r.out = "ok"
                /\ ~PersonnelRaises(r.objs[h])
                /\ p \in RosterSet(r.objs[h])
                /\ RosterSet(r.objs[h]) = before \cup {p}
                /\ p \in before => RosterOf(r.objs[h]) = RosterOf(rotaObjs[h])

\* C5: add(p) returns p when p.id was not in the Rota, and nothing (None)
\* when it already was.
C5_AddReturnsAdded ==
    \A h \in Handles, p \in PersonnelObjs :
        InSync(h) =>
            LET r == RotaAddResult(rotaObjs, rotaFile, h, PersonnelArg(p))
            IN  IF p \in RosterSet(rotaObjs[h])
                THEN r.out = "ok" /\ r.val = PyNone
                ELSE r.out = "ok" /\ r.val = PyValue(p)

\* C6: sub(p) removes exactly the entry of p.id, persists the result and
\* returns the removed id; sub(p) of an absent id changes nothing; after
\* sub(otherRota) the personnel are the entries whose id is not in otherRota.
C6_SubRemovesById ==
    \A h \in Handles :
        InSync(h) =>
            /\ \A p \in PersonnelObjs :
                LET r == RotaSubResult(rotaObjs, rotaFile, h, PersonnelArg(p))
                IN  /\ r.out = "ok"
                    /\ ~PersonnelRaises(r.objs[h])
                    /\ RosterSet(r.objs[h]) = RosterSet(rotaObjs[h]) \ {p}
                    /\ r.file = DataFile(rotaObjs[h].rota, RosterOf(r.objs[h]))
                    /\ p \in RosterSet(rotaObjs[h]) =>
                          r.val = PyValue(PyStr(PersonnelId(p)))
                    /\ p \notin RosterSet(rotaObjs[h]) =>
                          /\ RosterOf(r.objs[h]) = RosterOf(rotaObjs[h])
                          /\ r.file = rotaFile
            /\ \A o \in Handles :
                (rotaObjs[o].live /\ ~PersonnelRaises(rotaObjs[o])) =>
                    LET r == RotaSubResult(rotaObjs, rotaFile, h, RotaArg(o))
                        theirs == IF o = h THEN IdSet(rotaFile.personnel)
                                  ELSE IdSet(rotaObjs[o].items)
                    IN  /\ r.out = "ok"
                        /\ ~PersonnelRaises(r.objs[h])
                        /\ RosterSet(r.objs[h]) =
                             {q \in RosterSet(rotaObjs[h]) : PersonnelId(q) \notin theirs}

\* The ids an add or sub call is to leave in the Rota, given the ids F that
\* the file holds when the call starts.
IdsOfArg(arg) ==
    CASE arg.form = "Personnel" -> {PersonnelId(arg.p)}
      [] arg.form = "Rota" ->
            IF PersonnelRaises(rotaObjs[arg.h]) THEN {}
            ELSE IdSet(rotaObjs[arg.h].items)
      [] OTHER -> {PersonnelId(arg.items[i]) : i \in 1..Len(arg.items)}

ExpectedIds(op, h, arg) ==
    LET F == IdSet(rotaFile.personnel)
        A == IF arg.form = "Rota" /\ arg.h = h THEN F ELSE IdsOfArg(arg)
    IN  IF op = "add" THEN F \cup A ELSE F \ A

\* One call as a reload -> mutate -> persist unit: when it returns, the Rota
\* holds the mutation of what the file held at the start and the file holds
\* what the Rota holds.
AsOneUnit(op, h, arg) ==
    LET r == IF op = "add" THEN RotaAddResult(rotaObjs, rotaFile, h, arg)
             ELSE RotaSubResult(rotaObjs, rotaFile, h, arg)
    IN  r.out = "ok" =>
            /\ ~PersonnelRaises(r.objs[h])
            /\ r.file = DataFile(r.objs[h].rota, RosterOf(r.objs[h]))
            /\ IdSet(r.objs[h].items) = ExpectedIds(op, h, arg)

CallReady(h, arg) ==
    /\ rotaObjs[h].live
    /\ rotaFile.state = "data"
    /\ arg.form = "Rota" => rotaObjs[arg.h].live

Mutated(op, ids, p) ==
    IF op = "add" THEN ids \cup {PersonnelId(p)} ELSE ids \ {PersonnelId(p)}

\* A call that has reloaded and then persists writes the roster it reloaded,
\* mutated: whatever the other process wrote to the file since the reload is
\* gone from it.
LastWriterWins ==
    rotaCall # NoCall =>
        LET r == RotaFinishResult(rotaObjs, rotaFile, rotaCall.h, rotaCall.op,
                                  rotaCall.arg)
        IN  r.out = "ok" =>
               /\ r.file.state = "data"
               /\ IdSet(r.file.personnel) =
                     Mutated(rotaCall.op, IdSet(rotaObjs[rotaCall.h].items),
                             rotaCall.arg.p)

\* The whole call op(p) of the process of handle h.
WholeCall(objs, file, h, op, p) ==
    IF op = "add" THEN RotaAddResult(objs, file, h, PersonnelArg(p))
    ELSE RotaSubResult(objs, file, h, PersonnelArg(p))

\* A call that starts after a call of the other process has returned works
\* on what that call wrote.
EarlierWriteKept ==
    rotaCall = NoCall =>
        \A A, B \in Handles, opA, opB \in {"add", "sub"}, pA, pB \in PersonnelObjs :
            (A # B /\ rotaObjs[A].live /\ rotaObjs[B].live) =>
                LET b == WholeCall(rotaObjs, rotaFile, B, opB, pB)
                    a == WholeCall(b.objs, b.file, A, opA, pA)
                IN  (b.out = "ok" /\ a.out = "ok") =>
                       /\ a.file.state = "data"
                       /\ IdSet(a.file.personnel) =
                             Mutated(opA, IdSet(b.file.personnel), pA)

\* C27: when the other process persists a change after this process's reload
\* and before its persist within one add or sub call, the file no longer
\* holds that change after the persist (the last writer wins); when the
\* other process's write is complete before the reload, its change is kept.
C27_LostUpdate == LastWriterWins /\ EarlierWriteKept

\* A call has reloaded, the other process has then removed somebody from the
\* file, and the second half of the call is about to write that entry back.
C27_Witness ==
    /\ rotaCall # NoCall
    /\ rotaRet.op = "sub" /\ rotaRet.h # rotaCall.h /\ rotaRet.out = "ok"
    /\ rotaFile.state = "data"
    /\ IdSet(rotaFile.personnel) # IdSet(rotaObjs[rotaCall.h].items)
    /\ LET r == RotaFinishResult(rotaObjs, rotaFile, rotaCall.h, rotaCall.op,
                                 rotaCall.arg)
       IN  /\ r.out = "ok"
           /\ IdSet(r.file.personnel) #
                 Mutated(rotaCall.op, IdSet(rotaFile.personnel), rotaCall.arg.p)

\* C8: persisting any reachable Rota and loading a Rota from the same path
\* gives the same identifier and the same personnel, and the loaded Rota
\* answers add and sub like the original.
C8_RoundTrip ==
    \A h \in Handles :
        rotaObjs[h].live =>
            LET o == CHOOSE x \in Handles : x # h
                s == RotaSaveResult(rotaObjs, rotaFile, h)
                l == RotaInitResult(s.objs, s.file, o, 2)
            IN  /\ s.out = "ok"
                /\ l.out = "ok"
                /\ l.objs[o].rota = rotaObjs[h].rota
                /\ ~PersonnelRaises(rotaObjs[h])
                /\ RosterSet(l.objs[o]) = RosterSet(rotaObjs[h])
                /\ \A p \in PersonnelObjs :
                     LET a1 == RotaAddResult(l.objs, l.file, h, PersonnelArg(p))
                         a2 == RotaAddResult(l.objs, l.file, o, PersonnelArg(p))
                         s1 == RotaSubResult(l.objs, l.file, h, PersonnelArg(p))
                         s2 == RotaSubResult(l.objs, l.file, o, PersonnelArg(p))
                     IN  /\ a1.out = a2.out /\ a1.file = a2.file
                         /\ s1.out = s2.out /\ s1.file = s2.file

(***************************************************************************)
(* Role: creation with a rule (C11)                                        *)
(***************************************************************************)

\* The declared constraints a creation argument asks for under a rule.
Requested(c, rule) ==
    CASE c.form = "vehicle" -> [k \in {c.v} |-> rule]
      [] c.form = "list" -> [k \in SeqRange(c.items) |-> rule]
      [] OTHER -> c.items

\* Arguments of the right types: a Vehicle, a list of Vehicles, or a mapping
\* from Vehicles to booleans.
WellTyped(c) ==
    CASE c.form = "vehicle" -> c.v \in Vehicles
      [] c.form = "list" -> SeqRange(c.items) \subseteq Vehicles
      [] c.form = "dict" ->
            \A k \in DOMAIN c.items : k \in Vehicles /\ c.items[k] \in PyBool
      [] OTHER -> FALSE

\* C11: Role(name, constraint, rule) with a Vehicle or a list of Vehicles
\* yields a Role whose own constraints map each of them to the rule; with a
\* mapping the own constraints are the mapping.
C11_CreationAppliesRule ==
    \A c \in RuledArgs \cup DictArgs, rule \in Rules,
       inherit \in RoleIds \cup {NoRole} :
        WellTyped(c) =>
            LET r == RoleInitResult(roleObjs, "new", c, rule, inherit)
            IN  /\ r.out = "ok"
                /\ r.objs[Len(r.objs)]._constraints = Requested(c, rule)

(***************************************************************************)
(* Personnel: identity and constraints (C12, C25, C26)                     *)
(***************************************************************************)

\* Equal name and Role give equal ids; a different name or a different Role
\* name gives a different id.
IdTellsApart ==
    \A i, j \in PersonnelIds :
        (persObjs[i].name = persObjs[j].name /\ persObjs[i].role = persObjs[j].role)
            <=> PersonnelId(persObjs[i]) = PersonnelId(persObjs[j])

\* A Personnel whose name changed has another id on the next read.
RenameChangesId ==
    \A i \in PersonnelIds :
        (i <= Len(persObjs') /\ persObjs'[i].name # persObjs[i].name)
            => PersonnelId(persObjs'[i]) # PersonnelId(persObjs[i])

\* C12: the id is a function of the current name and Role name that tells
\* any two (name, Role name) pairs apart, and it follows a rename.
C12_IdentityByNameAndRole == []IdTellsApart /\ [][RenameChangesId]_vars

\* A constraint map with only Vehicles as keys and booleans as values.
WellTypedMap(m) == \A k \in DOMAIN m : k \in Vehicles /\ m[k] \in PyBool

\* A call that has to be refused: a key that is no Vehicle, a value of a
\* mapping that is no boolean, or a rule that is no boolean.
IllTyped(c, rule) ==
    \/ ~WellTyped(c)
    \/ c.form \in {"vehicle", "list"} /\ rule \notin PyBool

\* C25: the own constraint map of every Role and Personnel has only Vehicles
\* as keys and booleans as values, and a constraint call with a non-boolean
\* rule or a key that is no Vehicle raises TypeError and leaves the map as
\* it was, in the single-Vehicle, list and mapping forms alike.
C25_ConstraintsWellTyped ==
    /\ \A r \in RoleIds : WellTypedMap(roleObjs[r]._constraints)
    /\ \A i \in PersonnelIds :
          /\ WellTypedMap(persObjs[i]._constraints)
          /\ \A c \in RuledArgs \cup UnruledArgs, rule \in PyBool \cup {NotABool} :
                LET res == AddRoleResult(persObjs[i]._constraints, TRUE, c, rule)
                IN  /\ WellTypedMap(res.own)
                    /\ IllTyped(c, rule) =>
                          /\ res.out = "TypeError"
                          /\ res.own = persObjs[i]._constraints

\* C26: the constraints of a Personnel are the effective constraints of the
\* Role it was created with, whatever was done on the Personnel, addRole
\* included: no call builds constraints private to the Personnel.
C26_ConstraintsDelegated ==
    \A i \in PersonnelIds :
        /\ PersonnelConstraints(persObjs[i]) = HeldConstraints(persObjs[i].role)
        /\ persObjs[i]._constraints = EmptyDict

\* C21: Rota() with neither an identifier nor a file name fails with
\* NameError, creates no file and binds no Rota.
C21_NeitherIsNameError ==
    \A h \in Handles :
        LET r == RotaCallResult(rotaObjs, rotaFile, h, NoId, NoName)
        IN  /\ r.out = "NameError"
            /\ r.file = rotaFile
            /\ r.objs = rotaObjs

\* C20: an add, a sub or a registration that raises leaves the file as it
\* was when the call started.
C20_NoWriteOnError ==
    /\ \A h \in Handles, arg \in AddArgs :
          (rotaObjs[h].live /\ (arg.form = "Rota" => rotaObjs[arg.h].live)) =>
              LET a == RotaAddResult(rotaObjs, rotaFile, h, arg)
                  b == RotaSubResult(rotaObjs, rotaFile, h, arg)
              IN  /\ a.out # "ok" => a.file = rotaFile
                  /\ b.out # "ok" => b.file = rotaFile
    /\ \A kind \in KindSet, key \in Keys, fit \in BOOLEAN :
          LET r == AddAssetResult(stnSlot, stnHeap, stnFile, kind, key, fit)
          IN  r.out # "ok" => r.file = stnFile

(***************************************************************************)
(* Appliance and Vehicle: capacity, limits and copies (C13 - C15, C23, C24) *)
(***************************************************************************)

\* What the crew and limits properties of a live object show.
CrewOf(objs, heap, o) == Filtered(heap[objs[o]._crew])
ViewOf(objs, heap, o) ==
    [crew |-> CrewOf(objs, heap, o), limits |-> objs[o]._limits]

\* C13: the constructor raises the maximum to the crew total when it was
\* declared lower, and whatever change calls follow, raising or not, the
\* crew total of an Appliance never exceeds limits[1].
C13_CapacityInvariant ==
    /\ \A crew \in InitCrews, limits \in InitLimits :
          LET r == ApplianceInitResult(applObjs, applHeap, TheAppliance, crew,
                                       limits[1], limits[2])
          IN  r.out = "ok" =>
                 /\ r.objs[TheAppliance]._limits[2] >= SumValues(crew)
                 /\ r.objs[TheAppliance]._limits[2] >= limits[2]
    /\ \A o \in ApplNames :
          applObjs[o].live =>
              SumValues(CrewOf(applObjs, applHeap, o)) <= applObjs[o]._limits[2]

\* C14: crew {A:1, B:1} declared with maximum=1 gets the maximum 2; a
\* change(role_or_mapping, value) whose merged crew total would exceed the
\* current maximum raises ValueError and leaves the crew as it was.
C14_RejectedChange ==
    /\ ApplianceInitResult(applObjs, applHeap, TheAppliance,
                           [k \in CrewRoles |-> 1], 1, 1)
          .objs[TheAppliance]._limits[2] = 2
    /\ \A o \in ApplNames, arg \in ChangeArgs :
          (applObjs[o].live /\ arg.form # "other"
             /\ SumValues(DictMerge(CrewOf(applObjs, applHeap, o), arg.items))
                   > applObjs[o]._limits[2])
          => LET r == ChangeResult(applObjs, applHeap, o, arg, 0, 0)
             IN  /\ r.out = "ValueError"
                 /\ CrewOf(r.objs, r.heap, o) = CrewOf(applObjs, applHeap, o)

\* C23: after construction and after any change call, raising or not,
\* limits[1] (the maximum) is at least limits[0] (the minimum).
C23_LimitsOrdered ==
    /\ \A crew \in InitCrews, limits \in InitLimits :
          LET r == ApplianceInitResult(applObjs, applHeap, TheAppliance, crew,
                                       limits[1], limits[2])
          IN  r.out = "ok" =>
                 r.objs[TheAppliance]._limits[2] >= r.objs[TheAppliance]._limits[1]
    /\ \A o \in ApplNames, call \in ChangeCalls \cup LimitCalls :
          applObjs[o].live =>
              LET r == ChangeResult(applObjs, applHeap, o, call[1], call[2], call[3])
              IN  /\ applObjs[o]._limits[2] >= applObjs[o]._limits[1]
                  /\ r.objs[o]._limits[2] >= r.objs[o]._limits[1]

\* C24: a change call that raises leaves the limits and the crew of the
\* Appliance as they were, whatever minimum and maximum it was given.
C24_NoPartialChange ==
    \A o \in ApplNames, call \in ChangeCalls \cup LimitCalls :
        applObjs[o].live =>
            LET r == ChangeResult(applObjs, applHeap, o, call[1], call[2], call[3])
            IN  r.out # "ok" =>
                   /\ r.out \in {"ValueError", "AttributeError", "TypeError"}
                   /\ ViewOf(r.objs, r.heap, o) = ViewOf(applObjs, applHeap, o)

\* A call on one object left the crew and limits of every other as they were.
OthersKept(r, o) ==
    \A x \in ApplNames \ {o} :
        applObjs[x].live =>
            /\ r.objs[x].live
            /\ ViewOf(r.objs, r.heap, x) = ViewOf(applObjs, applHeap, x)

\* C15: a change or a crew read on the Appliance or on one of the Vehicles
\* made from it alters the crew and limits of none of the others, and so
\* does making a further Vehicle.
C15_CopyIsolation ==
    /\ \A o \in ApplNames :
          applObjs[o].live =>
              /\ OthersKept(CrewRead(applObjs, applHeap, o), o)
              /\ \A call \in ChangeCalls :
                    OthersKept(ChangeResult(applObjs, applHeap, o,
                                            call[1], call[2], call[3]), o)
    /\ \A v \in TheVehicles :
          (applObjs[TheAppliance].live /\ ~applObjs[v].live) =>
              OthersKept(VehicleInitResult(applObjs, applHeap, v, TheAppliance), v)

\* Both Vehicles exist, a change has just gone through, and the three crews
\* differ from one another.
C15_Witness ==
    /\ \A o \in ApplNames : applObjs[o].live
    /\ applRet = [op |-> "change", out |-> "ok"]
    /\ CrewOf(applObjs, applHeap, "v1") # CrewOf(applObjs, applHeap, "v2")
    /\ CrewOf(applObjs, applHeap, "v1") # CrewOf(applObjs, applHeap, TheAppliance)
    /\ CrewOf(applObjs, applHeap, "v2") # CrewOf(applObjs, applHeap, TheAppliance)

(***************************************************************************)
(* Role: effective constraints (C9, C10)                                   *)
(***************************************************************************)

\* The nearest Role on the inheritance chain of r, r included, that declares
\* the Vehicle v itself; NoRole when none does.
RECURSIVE NearestDeclaring(_, _, _)
NearestDeclaring(objs, r, v) ==
    IF r = NoRole THEN NoRole
    ELSE IF v \in DOMAIN objs[r]._constraints THEN r
    ELSE NearestDeclaring(objs, objs[r]._inheritance, v)

\* The proper ancestors of r.
RECURSIVE Ancestors(_, _)
Ancestors(objs, r) ==
    IF objs[r]._inheritance = NoRole THEN {}
    ELSE {objs[r]._inheritance} \cup Ancestors(objs, objs[r]._inheritance)

EffectiveIsNearest ==
    \A r \in RoleIds :
        LET eff == constraints(roleObjs, r)
        IN  /\ DOMAIN eff =
                 {v \in Vehicles : NearestDeclaring(roleObjs, r, v) # NoRole}
            /\ \A v \in DOMAIN eff :
                 eff[v] = roleObjs[NearestDeclaring(roleObjs, r, v)]._constraints[v]
            /\ (roleObjs[r]._inheritance = NoRole
                    /\ DOMAIN roleObjs[r]._constraints = {}) => DOMAIN eff = {}

\* A step after which the Role p declares v with a value it did not declare
\* before: every child of p that does not declare v itself now reads it.
LateDeclarationVisible ==
    \A p \in RoleIds :
        roleObjs'[p]._constraints # roleObjs[p]._constraints =>
            \A v \in DOMAIN roleObjs'[p]._constraints, c \in RoleIds :
                (roleObjs[c]._inheritance = p
                    /\ v \notin DOMAIN roleObjs[c]._constraints
                    /\ (v \notin DOMAIN roleObjs[p]._constraints
                        \/ roleObjs[p]._constraints[v] # roleObjs'[p]._constraints[v]))
                => /\ v \in DOMAIN constraints(roleObjs', c)
                   /\ constraints(roleObjs', c)[v] = roleObjs'[p]._constraints[v]

\* C9: the effective constraints of every Role map each Vehicle to the value
\* declared by the nearest Role of its inheritance chain that declares it
\* (its own declaration first), are empty for a Role with no declaration and
\* no parent, and a declaration made on a parent after the child was created
\* shows in the child unless the child declares that Vehicle itself.
C9_EffectiveConstraints ==
    []EffectiveIsNearest /\ [][LateDeclarationVisible]_vars

\* A child that leaves X to its chain and takes it from its grandparent, past
\* a parent that declares nothing for X, while its own Y beats the parent's.
C9_Witness ==
    \E c \in RoleIds :
        LET p == roleObjs[c]._inheritance
        IN  /\ p # NoRole
            /\ roleObjs[p]._inheritance # NoRole
            /\ VehicleX \notin DOMAIN roleObjs[c]._constraints
            /\ VehicleX \notin DOMAIN roleObjs[p]._constraints
            /\ VehicleX \in DOMAIN roleObjs[roleObjs[p]._inheritance]._constraints
            /\ roleObjs[roleObjs[p]._inheritance]._constraints[VehicleX] = PyTrue
            /\ VehicleY \in DOMAIN roleObjs[c]._constraints
            /\ VehicleY \in DOMAIN roleObjs[p]._constraints
            /\ roleObjs[c]._constraints[VehicleY] # roleObjs[p]._constraints[VehicleY]

\* The chain A -> B -> C with X:True declared on B and Y:False on C.
IsChain(a, b, c) ==
    /\ roleObjs[c]._inheritance = b
    /\ roleObjs[b]._inheritance = a
    /\ roleObjs[a]._inheritance = NoRole
    /\ DOMAIN roleObjs[a]._constraints = {}
    /\ VehicleX \in DOMAIN roleObjs[b]._constraints
    /\ roleObjs[b]._constraints[VehicleX] = PyTrue
    /\ VehicleY \in DOMAIN roleObjs[c]._constraints
    /\ roleObjs[c]._constraints[VehicleY] = PyFalse

ChainOverride ==
    \A a, b, c \in RoleIds :
        IsChain(a, b, c) =>
            LET effC == constraints(roleObjs, c)
                effB == constraints(roleObjs, b)
                ownC == roleObjs[c]._constraints
            IN  /\ effC[VehicleY] = PyFalse
                /\ VehicleX \in DOMAIN effC
                /\ VehicleX \notin DOMAIN ownC => effC[VehicleX] = PyTrue
                /\ VehicleX \in DOMAIN ownC => effC[VehicleX] = ownC[VehicleX]
                /\ effB[VehicleX] = PyTrue
                /\ DOMAIN constraints(roleObjs, a) = {}

\* A step that changes what the Role r declares leaves the effective
\* constraints of every ancestor of r as they were.
AncestorsUntouched ==
    \A r \in RoleIds :
        roleObjs'[r]._constraints # roleObjs[r]._constraints =>
            \A a \in Ancestors(roleObjs, r) :
                constraints(roleObjs', a) = constraints(roleObjs, a)

\* C10: in a chain A -> B (X:True) -> C (Y:False) the effective constraints of
\* C hold X:True and Y:False; once C declares X:False its effective X is
\* False while those of B and A stay; a declaration on a Role never changes
\* the effective constraints of any of its ancestors.
C10_OverrideIsolation ==
    []ChainOverride /\ [][AncestorsUntouched]_vars

\* The chain after C has overridden X to False.
C10_Witness ==
    \E a, b, c \in RoleIds :
        /\ IsChain(a, b, c)
        /\ VehicleX \in DOMAIN roleObjs[c]._constraints
        /\ roleObjs[c]._constraints[VehicleX] = PyFalse
        /\ constraints(roleObjs, b)[VehicleX] = PyTrue
====
